---- MODULE Spec2Model ----
(***************************************************************************)
(* PDF Fusion: the ordered file list of App.tsx (upload, drag-reorder,     *)
(* remove, merge) and the merge routine generateMergedPdf of               *)
(* services/pdfService.ts.                                                 *)
(*                                                                         *)
(* Lengths are exact rationals <<n, d>> in PDF points (the code computes   *)
(* them in IEEE doubles; rounding is not modelled).                        *)
(***************************************************************************)
EXTENDS Integers, Sequences, FiniteSets, TLC

VARIABLES files, status, merges, nextId, timers

vars == <<files, status, merges, nextId, timers>>

\* ----------------------------------------------------------------- bounds
MaxLen == 2          \* longest list handed to generateMergedPdf directly
MaxFiles == 3        \* longest ordered file list of the App
MaxUploads == 3      \* ids handed out by crypto.randomUUID() in one session
MaxMerges == 2       \* clicks on the merge button in one session
MaxBatch == 2        \* most files picked in one upload
MaxPages == 2        \* most pages of a source PDF
MaxDimK == 2         \* image sides are DimStep, 2*DimStep, .. MaxDimK*DimStep
DimStep == 500

\* ------------------------------------------------------- program constants
\* types.ts FileType
PDF == "application/pdf"
PNG == "image/png"
JPG == "image/jpeg"
JPEG == "image/jpeg"
\* a declared type outside FileType
OTHER_TYPE == "text/plain"

\* PageSizes.A4 = [595.28, 841.89], in hundredths of a point
A4WidthCenti == 59528
A4HeightCenti == 84189
margin == 40

\* ---------------------------------------------------------------- rationals
RECURSIVE Gcd(_, _)
Gcd(a, b) == IF b = 0 THEN a ELSE Gcd(b, a % b)

Abs(n) == IF n < 0 THEN -n ELSE n

\* n/d in lowest terms, d > 0
Rat(n, d) ==
    LET g == Gcd(Abs(n), Abs(d))
        s == IF d < 0 THEN -1 ELSE 1
    IN  <<s * (n \div g), s * (d \div g)>>

RInt(n) == <<n, 1>>

RLe(a, b) ==
    LET g == Gcd(a[2], b[2])
    IN  a[1] * (b[2] \div g) <= b[1] * (a[2] \div g)

RSub(a, b) ==
    LET g == Gcd(a[2], b[2])
    IN  Rat(a[1] * (b[2] \div g) - b[1] * (a[2] \div g), a[2] * (b[2] \div g))

RMul(a, b) ==
    LET x == Rat(a[1], b[2])
        y == Rat(b[1], a[2])
    IN  Rat(x[1] * y[1], x[2] * y[2])

RDiv(a, b) == RMul(a, <<b[2], b[1]>>)

RMin(a, b) == IF RLe(a, b) THEN a ELSE b

A4 == <<Rat(A4WidthCenti, 100), Rat(A4HeightCenti, 100)>>

\* ------------------------------------------------------------------- files
\* What a File holds: its declared type, whether FileReader can read it,
\* whether its bytes decode as the declared type, and what they decode to.
ImageSides == {k * DimStep : k \in 1..MaxDimK}

PdfBlobs ==
    {[type |-> PDF, readable |-> TRUE, valid |-> TRUE, pages |-> p, w |-> 0, h |-> 0] :
        p \in 0..MaxPages}

ImageBlobs ==
    {[type |-> t, readable |-> TRUE, valid |-> TRUE, pages |-> 0, w |-> w, h |-> h] :
        t \in {PNG, JPG}, w \in ImageSides, h \in ImageSides}

CorruptBlobs ==
    {[type |-> t, readable |-> TRUE, valid |-> FALSE, pages |-> 0, w |-> 0, h |-> 0] :
        t \in {PDF, PNG, JPEG}}

UnreadableBlobs ==
    {[type |-> PDF, readable |-> FALSE, valid |-> TRUE, pages |-> 1, w |-> 0, h |-> 0]}

OtherBlobs ==
    {[type |-> OTHER_TYPE, readable |-> TRUE, valid |-> TRUE, pages |-> 0, w |-> 0, h |-> 0]}

Blobs == PdfBlobs \cup ImageBlobs \cup CorruptBlobs \cup UnreadableBlobs \cup OtherBlobs

\* types.ts UploadedFile (name, size and previewUrl play no part in a merge)
UploadedFile(id, blob) == [id |-> id, file |-> blob, type |-> blob.type]

\* ------------------------------------------------------------------- pages
NoSize == <<RInt(0), RInt(0)>>
NoDraw == [x |-> RInt(0), y |-> RInt(0), width |-> RInt(0), height |-> RInt(0)]

\* page k of the source PDF of fileItem, copied with its own size and content
CopiedPage(fileItem, k) ==
    [kind |-> "copied", src |-> fileItem.id, n |-> k, size |-> NoSize,
     embed |-> "", draw |-> NoDraw]

\* Math.min(scaleWidth, scaleHeight, 1)
ScaleUncapped(scaleWidth, scaleHeight) == RMin(scaleWidth, scaleHeight)

Scale(scaleWidth, scaleHeight) == RMin(RMin(scaleWidth, scaleHeight), RInt(1))

\* the options of page.drawImage for an image of natural size w x h
DrawOptions(w, h) ==
    LET width == A4[1]
        height == A4[2]
        maxWidth == RSub(width, RInt(margin * 2))
        maxHeight == RSub(height, RInt(margin * 2))
        scaleWidth == RDiv(maxWidth, RInt(w))
        scaleHeight == RDiv(maxHeight, RInt(h))
        scale == Scale(scaleWidth, scaleHeight)
        displayWidth == RMul(RInt(w), scale)
        displayHeight == RMul(RInt(h), scale)
    IN  [x |-> RDiv(RSub(width, displayWidth), RInt(2)),
         y |-> RDiv(RSub(height, displayHeight), RInt(2)),
         width |-> displayWidth,
         height |-> displayHeight]

\* the A4 page added for an image file
ImagePage(fileItem) ==
    [kind |-> "image", src |-> fileItem.id, n |-> 1, size |-> A4,
     embed |-> IF fileItem.type = PNG THEN "png" ELSE "jpg",
     draw |-> DrawOptions(fileItem.file.w, fileItem.file.h)]

\* ------------------------------------------------------- generateMergedPdf
NoFile == 0
NoError == [name |-> "", file |-> NoFile]
\* what pdf-lib throws on bytes it cannot decode: no file is named in it
LibraryError == [name |-> "Error", file |-> NoFile]
\* what reader.onerror rejects with
ReaderError == [name |-> "ProgressEvent", file |-> NoFile]

\* One call of generateMergedPdf(fs): its locals, its promise (settled, bytes,
\* error) and, for its caller handleMerge, whether downloadPdf was called.
\* stage, reads and failedAt record how far each file has got.
NewInvocation(fs, caller, pc) ==
    [pc |-> pc, caller |-> caller, files |-> fs, i |-> 0, doc |-> <<>>,
     stage |-> [j \in 1..Len(fs) |-> "pending"], reads |-> 0,
     settled |-> "pending", bytes |-> <<>>, error |-> NoError,
     failedAt |-> 0, downloaded |-> FALSE]

\* a files.map(async ...) loop: every remaining read starts at once
AdvanceAll(inv) ==
    IF inv.i < Len(inv.files)
    THEN [inv EXCEPT !.i = @ + 1, !.pc = "read",
                     !.stage = [j \in 1..Len(inv.files) |->
                                  IF j > inv.i THEN "reading" ELSE inv.stage[j]],
                     !.reads = Len(inv.files)]
    ELSE [inv EXCEPT !.pc = "save"]

\* for (const fileItem of files): the next file's read starts, or the loop ends
Advance(inv) ==
    IF inv.i < Len(inv.files)
    THEN [inv EXCEPT !.i = @ + 1, !.pc = "read",
                     !.stage[inv.i + 1] = "reading", !.reads = @ + 1]
    ELSE [inv EXCEPT !.pc = "save"]

\* a try/catch inside the loop that skips the bad file
FailAndContinue(inv, err) ==
    Advance([inv EXCEPT !.failedAt = inv.i, !.stage[inv.i] = "failed"])

\* an await rejects: nothing in generateMergedPdf catches it
Fail(inv, err) ==
    [inv EXCEPT !.pc = "failed", !.settled = "rejected", !.error = err,
                !.failedAt = inv.i, !.stage[inv.i] = "failed"]

\* await PDFDocument.create()
Create(inv) == Advance(inv)

\* await readFileAsArrayBuffer(fileItem.file), then the branch on fileItem.type
ReadFile(inv) ==
    LET fileItem == inv.files[inv.i]
    IN  IF ~fileItem.file.readable
        THEN Fail(inv, ReaderError)
        ELSE IF fileItem.type = PDF
        THEN [inv EXCEPT !.pc = "load", !.stage[inv.i] = "read"]
        ELSE IF fileItem.type = PNG \/ fileItem.type = JPG \/ fileItem.type = JPEG
        THEN [inv EXCEPT !.pc = "embed", !.stage[inv.i] = "read"]
        ELSE Advance([inv EXCEPT !.stage[inv.i] = "skipped"])

\* await PDFDocument.load(fileBuffer)
LoadPdf(inv) ==
    LET fileItem == inv.files[inv.i]
    IN  IF ~fileItem.file.valid
        THEN Fail(inv, LibraryError)
        ELSE [inv EXCEPT !.pc = "copy", !.stage[inv.i] = "parsed"]

\* copiedPages with the last page first
AddCopiedPagesReversed(doc, fileItem) ==
    doc \o [k \in 1..fileItem.file.pages |->
              CopiedPage(fileItem, fileItem.file.pages + 1 - k)]

\* copiedPages.forEach((page) => mergedPdf.addPage(page))
AddCopiedPages(doc, fileItem) ==
    doc \o [k \in 1..fileItem.file.pages |-> CopiedPage(fileItem, k)]

\* await mergedPdf.copyPages(pdf, pdf.getPageIndices()), then the forEach
CopyPages(inv) ==
    LET fileItem == inv.files[inv.i]
    IN  Advance([inv EXCEPT !.doc = AddCopiedPages(inv.doc, fileItem),
                            !.stage[inv.i] = "appended"])

\* await mergedPdf.embedPng / embedJpg (fileBuffer), then addPage and drawImage
EmbedImage(inv) ==
    LET fileItem == inv.files[inv.i]
    IN  IF ~fileItem.file.valid
        THEN Fail(inv, LibraryError)
        ELSE Advance([inv EXCEPT !.doc = Append(inv.doc, ImagePage(fileItem)),
                                 !.stage[inv.i] = "appended"])

\* await mergedPdf.save(); return pdfBytes
Save(inv) ==
    [inv EXCEPT !.pc = "returned", !.settled = "fulfilled", !.bytes = inv.doc]

\* --------------------------------------------------------------------- App
\* ProcessingStatus; error is "" where the code leaves it undefined
Idle == [isProcessing |-> FALSE, message |-> "", error |-> ""]
Processing ==
    [isProcessing |-> TRUE, message |-> "Procesando documentos e imagenes...", error |-> ""]
Ready ==
    [isProcessing |-> FALSE, message |-> "Listo! Tu PDF se ha descargado.", error |-> ""]
Failed ==
    [isProcessing |-> FALSE, message |-> "",
     error |-> "Hubo un error al crear el PDF. Asegurate de que los archivos no esten danados."]

\* the files a user picks in the App
OnePagePdf == [type |-> PDF, readable |-> TRUE, valid |-> TRUE, pages |-> 1, w |-> 0, h |-> 0]
CorruptPdf == [type |-> PDF, readable |-> TRUE, valid |-> FALSE, pages |-> 0, w |-> 0, h |-> 0]
TextFile == [type |-> OTHER_TYPE, readable |-> TRUE, valid |-> TRUE, pages |-> 0, w |-> 0, h |-> 0]
SmallPng ==
    [type |-> PNG, readable |-> TRUE, valid |-> TRUE, pages |-> 0, w |-> DimStep, h |-> DimStep]
UploadChoices == {OnePagePdf, CorruptPdf, SmallPng, TextFile}


FileLists == UNION {[1..n -> UploadChoices] : n \in 1..MaxBatch}

Ids(fs) == {fs[j].id : j \in 1..Len(fs)}

\* items.findIndex((item) => item.id === id), 1-based
FindIndex(items, id) == CHOOSE j \in 1..Len(items) : items[j].id = id

\* crypto.randomUUID(): an id never handed out before
RandomUUID(counter, k) == counter + k - 1

\* arrayMove of @dnd-kit/sortable: splice the element out, splice it in at `to`
\* (indices 1-based here)
ArrayMove(array, from, to) ==
    LET item == array[from]
        rest == SubSeq(array, 1, from - 1) \o SubSeq(array, from + 1, Len(array))
    IN  SubSeq(rest, 1, to - 1) \o <<item>> \o SubSeq(rest, to, Len(rest))

\* prev.filter((f) => f.id !== id)
Filter(prev, id) == SelectSeq(prev, LAMBDA f : f.id # id)

handleFileUpload(fileList) ==
    /\ Len(files) + Len(fileList) <= MaxFiles
    /\ nextId + Len(fileList) - 1 <= MaxUploads
    /\ files' = files \o [k \in 1..Len(fileList) |->
                            UploadedFile(RandomUUID(nextId, k), fileList[k])]
    /\ nextId' = nextId + Len(fileList)
    /\ UNCHANGED <<status, merges, timers>>

\* oldIndex and newIndex exchanged
ReorderSwapped(items, active, over) ==
    ArrayMove(items, FindIndex(items, over), FindIndex(items, active))

\* the updater handed to setFiles in handleDragEnd
Reorder(items, active, over) ==
    ArrayMove(items, FindIndex(items, active), FindIndex(items, over))

\* over = NoFile: the drag ended over nothing
handleDragEnd(active, over) ==
    /\ files' = IF over # NoFile /\ active # over
                THEN Reorder(files, active, over)
                ELSE files
    /\ UNCHANGED <<status, merges, nextId, timers>>

removeFile(id) ==
    /\ files' = Filter(files, id)
    /\ UNCHANGED <<status, merges, nextId, timers>>

\* handleMerge has returned: its locals are gone, what it did stays
Returned(inv) ==
    [inv EXCEPT !.files = <<>>, !.doc = <<>>, !.stage = <<>>, !.bytes = <<>>]

\* catch (error) that also empties the list
OnRejectedClearing(k, inv) ==
    /\ status' = Failed
    /\ files' = <<>>
    /\ merges' = [merges EXCEPT ![k] = Returned(inv)]
    /\ UNCHANGED <<nextId, timers>>

\* handleMerge, catch (error)
OnRejected(k, inv) ==
    /\ status' = Failed
    /\ merges' = [merges EXCEPT ![k] = Returned(inv)]
    /\ UNCHANGED <<files, nextId, timers>>

\* handleMerge after await generateMergedPdf(files): the two setStatus calls,
\* downloadPdf and the setTimeout run in one turn
OnFulfilled(k, inv) ==
    /\ status' = Ready
    /\ merges' = [merges EXCEPT ![k] = Returned([inv EXCEPT !.downloaded = TRUE])]
    /\ timers' = timers + 1
    /\ UNCHANGED <<files, nextId>>

\* a step of generateMergedPdf; when it settles the promise handleMerge awaits,
\* handleMerge resumes in the same turn
Settle(k, inv) ==
    IF inv.caller = "handleMerge" /\ inv.settled = "fulfilled" THEN OnFulfilled(k, inv)
    ELSE IF inv.caller = "handleMerge" /\ inv.settled = "rejected" THEN OnRejected(k, inv)
    ELSE /\ merges' = [merges EXCEPT ![k] = inv]
         /\ UNCHANGED <<files, status, nextId, timers>>

\* the click on the merge button (rendered while files.length > 0, disabled
\* while status.isProcessing)
handleMerge ==
    /\ Len(files) > 0
    /\ ~status.isProcessing
    /\ Len(merges) < MaxMerges
    /\ status' = Processing
    /\ merges' = Append(merges, NewInvocation(files, "handleMerge", "delay"))
    /\ UNCHANGED <<files, nextId, timers>>

\* await new Promise(resolve => setTimeout(resolve, 100)), then the call
Delay(k) ==
    /\ merges[k].pc = "delay"
    /\ merges' = [merges EXCEPT ![k].pc = "create"]
    /\ UNCHANGED <<files, status, nextId, timers>>

GenCreate(k) == merges[k].pc = "create" /\ Settle(k, Create(merges[k]))
GenReadFile(k) == merges[k].pc = "read" /\ Settle(k, ReadFile(merges[k]))
GenLoadPdf(k) == merges[k].pc = "load" /\ Settle(k, LoadPdf(merges[k]))
GenCopyPages(k) == merges[k].pc = "copy" /\ Settle(k, CopyPages(merges[k]))
GenEmbedImage(k) == merges[k].pc = "embed" /\ Settle(k, EmbedImage(merges[k]))
GenSave(k) == merges[k].pc = "save" /\ Settle(k, Save(merges[k]))

\* setTimeout(() => setStatus({ isProcessing: false, message: '' }), 5000)
ClearStatus ==
    /\ timers > 0
    /\ status' = Idle
    /\ timers' = timers - 1
    /\ UNCHANGED <<files, merges, nextId>>

Init ==
    /\ files = <<>>
    /\ status = Idle
    /\ merges = <<>>
    /\ nextId = 1
    /\ timers = 0

Upload == \E fileList \in FileLists : handleFileUpload(fileList)
Drag == \E active \in Ids(files), over \in Ids(files) \cup {NoFile} : handleDragEnd(active, over)
Remove == \E id \in Ids(files) : removeFile(id)
DelayStep == \E k \in 1..Len(merges) : Delay(k)
CreateStep == \E k \in 1..Len(merges) : GenCreate(k)
ReadStep == \E k \in 1..Len(merges) : GenReadFile(k)
LoadStep == \E k \in 1..Len(merges) : GenLoadPdf(k)
CopyStep == \E k \in 1..Len(merges) : GenCopyPages(k)
EmbedStep == \E k \in 1..Len(merges) : GenEmbedImage(k)
SaveStep == \E k \in 1..Len(merges) : GenSave(k)

Next ==
    \/ Upload
    \/ Drag
    \/ Remove
    \/ handleMerge
    \/ DelayStep
    \/ CreateStep
    \/ ReadStep
    \/ LoadStep
    \/ CopyStep
    \/ EmbedStep
    \/ SaveStep
    \/ ClearStatus

Spec == Init /\ [][Next]_vars

\* ------------------------------------------------------ the list operations
NextList ==
    \/ Upload
    \/ Drag
    \/ Remove

SpecList == Init /\ [][NextList]_vars

\* ------------------------------------------------------- one merge, alone
\* generateMergedPdf(fs) called directly with any ordered list of records with
\* distinct ids, or by a click on the merge button of an App whose list is fs
InitMerge ==
    \E n \in 0..MaxLen : \E bs \in [1..n -> Blobs] :
        LET fs == [j \in 1..n |-> UploadedFile(j, bs[j])]
        IN  /\ nextId = n + 1
            /\ timers = 0
            /\ \/ /\ files = <<>>
                  /\ status = Idle
                  /\ merges = <<NewInvocation(fs, "direct", "create")>>
               \/ /\ n > 0
                  /\ files = fs
                  /\ status = Processing
                  /\ merges = <<NewInvocation(fs, "handleMerge", "delay")>>

NextMerge ==
    \/ DelayStep
    \/ CreateStep
    \/ ReadStep
    \/ LoadStep
    \/ CopyStep
    \/ EmbedStep
    \/ SaveStep

SpecMerge == InitMerge /\ [][NextMerge]_vars

\* ================================================================== claims
InFlight(inv) == inv.settled = "pending"
Direct(inv) == inv.caller = "direct"
Invocations == {merges[k] : k \in 1..Len(merges)}

ValidPdf(fileItem) ==
    fileItem.type = PDF /\ fileItem.file.readable /\ fileItem.file.valid

RECURSIVE PageSum(_)
PageSum(fs) ==
    IF fs = <<>> THEN 0 ELSE fs[1].file.pages + PageSum(Tail(fs))

\* <<id, k>> for page k of each input, inputs in list order
RECURSIVE PageOrder(_)
PageOrder(fs) ==
    IF fs = <<>> THEN <<>>
    ELSE [k \in 1..fs[1].file.pages |-> <<fs[1].id, k>>] \o PageOrder(Tail(fs))

C2_FailureAbortsMerge ==
    \A inv \in Invocations :
        inv.failedAt # 0
        => /\ inv.pc = "failed"
           /\ inv.settled = "rejected"
           /\ inv.bytes = <<>>
           /\ ~inv.downloaded
           /\ inv.reads = inv.failedAt
           /\ \A j \in DOMAIN inv.stage : j > inv.failedAt => inv.stage[j] = "pending"

C2_Witness ==
    \E inv \in Invocations :
        /\ inv.caller = "handleMerge"
        /\ inv.failedAt = 1
        /\ inv.reads = 1
        /\ Len(files) = 2
        /\ files[1].type = PNG
        /\ ~files[1].file.valid
        /\ ValidPdf(files[2])
        /\ status = Failed

\* C3: a rejected merge's error names the file it failed on.
C3_ErrorNamesFile ==
    \A inv \in Invocations :
        (Direct(inv) /\ inv.settled = "rejected")
        => inv.error.file = inv.files[inv.failedAt].id

\* C4: generateMergedPdf of an empty list fails: it neither serializes a
\* document nor returns a buffer.
C4_EmptyListRejected ==
    \A inv \in Invocations :
        (Direct(inv) /\ Len(inv.files) = 0)
        => inv.pc # "save" /\ inv.settled # "fulfilled"

\* C5: a list holding a record whose type is none of application/pdf,
\* image/png, image/jpeg never yields a document.
C5_UnsupportedTypeRejected ==
    \A inv \in Invocations :
        (Direct(inv) /\ \E j \in 1..Len(inv.files) : inv.files[j].type \notin {PDF, PNG, JPG})
        => inv.settled # "fulfilled"

printableWidth == Rat(A4WidthCenti - 2 * margin * 100, 100)
printableHeight == Rat(A4HeightCenti - 2 * margin * 100, 100)

PagesOf(inv, id) == {k \in 1..Len(inv.doc) : inv.doc[k].src = id}

ImageDrawnToFit(page, w, h) ==
    LET d == page.draw
    IN  /\ page.kind = "image"
        /\ page.size = A4
        /\ RLe(d.width, printableWidth) /\ RLe(d.height, printableHeight)
        /\ RLe(d.width, RInt(w)) /\ RLe(d.height, RInt(h))
        /\ RMul(d.width, RInt(h)) = RMul(d.height, RInt(w))
        /\ IF RLe(RInt(w), printableWidth) /\ RLe(RInt(h), printableHeight)
           THEN d.width = RInt(w) /\ d.height = RInt(h)
           ELSE d.width = printableWidth \/ d.height = printableHeight
        /\ RSub(A4[1], RMul(RInt(2), d.x)) = d.width
        /\ RSub(A4[2], RMul(RInt(2), d.y)) = d.height

\* C6: an image file whose steps are done has added exactly one page, of A4
\* size, with the image drawn at min(1, printable width / w, printable height
\* / h) of its natural size w x h: within the printable area, not larger than
\* natural, in its aspect ratio, and centred.
C6_ImageOnePageScaledCentred ==
    \A inv \in Invocations :
        \A j \in DOMAIN inv.stage :
            (inv.files[j].type \in {PNG, JPG} /\ inv.stage[j] = "appended")
            => /\ Cardinality(PagesOf(inv, inv.files[j].id)) = 1
               /\ \A k \in PagesOf(inv, inv.files[j].id) :
                      ImageDrawnToFit(inv.doc[k], inv.files[j].file.w, inv.files[j].file.h)

\* a 1000 x 500 image is drawn 515.28 wide, a 500 x 500 one at its own size
C6_Witness ==
    \E inv \in Invocations :
        /\ Len(inv.doc) = 2
        /\ inv.stage = <<"appended", "appended">>
        /\ inv.files[1].file.w = 2 * DimStep /\ inv.files[1].file.h = DimStep
        /\ inv.doc[1].draw.width = printableWidth
        /\ inv.files[2].file.w = DimStep /\ inv.files[2].file.h = DimStep
        /\ inv.doc[2].draw.width = RInt(DimStep)

Done(inv, j) == inv.stage[j] \in {"appended", "skipped"}

\* C7: a file's read starts only when every file before it in the list has
\* been read, parsed or embedded, and appended; the document is serialized
\* only when that is so of every file.
C7_FilesOneAtATimeInOrder ==
    \A inv \in Invocations :
        /\ \A j \in DOMAIN inv.stage :
               inv.stage[j] # "pending" => \A m \in 1..(j - 1) : Done(inv, m)
        /\ inv.pc \in {"save", "returned"}
               => \A j \in DOMAIN inv.stage : Done(inv, j)

C7_Witness ==
    \E inv \in Invocations :
        /\ Len(inv.files) = 2
        /\ inv.pc = "read"
        /\ inv.stage = <<"appended", "reading">>

\* C8: the step in which a merge started by handleMerge fails shows the error
\* message, ends the processing state and leaves the file list as it was.
C8_FailedMergeKeepsList ==
    [][\A k \in 1..Len(merges) :
          (/\ merges[k].caller = "handleMerge"
           /\ InFlight(merges[k])
           /\ merges'[k].settled = "rejected")
          => /\ status'.error # ""
             /\ ~status'.isProcessing
             /\ files' = files]_vars

C8_Witness ==
    \E inv \in Invocations :
        /\ inv.caller = "handleMerge"
        /\ inv.settled = "rejected"
        /\ inv.failedAt = 2
        /\ status.error # ""
        /\ Len(files) = 2

NoDuplicateIds == \A j, m \in 1..Len(files) : files[j].id = files[m].id => j = m

DragMovesOne ==
    \A active \in Ids(files), over \in Ids(files) :
        (active # over /\ handleDragEnd(active, over))
        => /\ files'[FindIndex(files, over)].id = active
           /\ SelectSeq(files', LAMBDA f : f.id # active)
                = SelectSeq(files, LAMBDA f : f.id # active)
           /\ Len(files') = Len(files)

RemoveDeletesOne ==
    \A id \in Ids(files) :
        removeFile(id)
        => LET at == FindIndex(files, id)
           IN  files' = SubSeq(files, 1, at - 1) \o SubSeq(files, at + 1, Len(files))

\* C9: the list never holds two records of one id; a drag puts the dragged
\* record at the index the target had and keeps the others in their order; a
\* removal deletes the record of the given id and no other.
C9_ListOperations ==
    NoDuplicateIds /\ [][NoDuplicateIds' /\ DragMovesOne /\ RemoveDeletesOne]_vars

\* three uploads, then the last record dragged over the first
C9_Witness ==
    /\ Len(files) = 3
    /\ files[1].id = 3 /\ files[2].id = 1 /\ files[3].id = 2

\* C10: while a merge is in flight, status.isProcessing is true.
C10_ProcessingWhileInFlight ==
    \A inv \in Invocations : InFlight(inv) => status.isProcessing

====
